---- MODULE Spec2Model ----
(***************************************************************************)
(* The page tree of motion-pro: the pages / content_blocks / comments /    *)
(* page_files tables (lib/database.ts) and the /api/pages route handlers   *)
(* POST, PUT and DELETE with their helpers (the second file concatenated   *)
(* in app/api/auth/me/route.ts).                                           *)
(*                                                                         *)
(* Spec, SpecCascade, SpecOrder, SpecContain : every handler runs as one   *)
(*            step (requests served one after the other); they differ in  *)
(*            the request bodies they send.                                *)
(* SpecConc : PUT is split at the point where its reads end and its UPDATE *)
(*            begins, so that two requests can overlap.                    *)
(***************************************************************************)
EXTENDS Integers, Sequences, FiniteSets, TLC

\* ---------------------------------------------------------------- bounds
MaxPages == 3
MaxRows == 2
MaxPagesSmall == 2
MaxOrder == 2
MaxNegOrder == 11
MaxTxn == 2
MaxChain == 53
MaxBlocks == 3
MaxBlockOrder == 3
MaxListLen == 2

\* ------------------------------------------------------------- constants
\* SQL NULL / JS null in a page-id column (parent_id VARCHAR(36), nullable)
NULL == 0
\* getPageDepth's safety ceiling
DepthCeiling == 50

PageIds == 1..MaxPages
BlockIds == 1..MaxBlocks
TxnIds == 1..MaxTxn

\* JS undefined / null for the string-valued request fields and columns
Undefined == "undefined"
Null == "null"

\* ---------------------------------------------- workspaces, sections (rows
\* of the workspaces / sections / subsections tables; no handler modelled
\* here writes them)
Workspaces == {"W1", "W2"}
Sections == {"S1", "S2", "S3"}
Subsections == {"Sub2"}
SectionWorkspace == [s \in Sections |-> IF s = "S3" THEN "W2" ELSE "W1"]
SubsectionSection == [u \in Subsections |-> "S2"]

VARIABLES
    pages,           \* pages table: id -> row
    content_blocks,  \* content_blocks table: id -> row
    comments,        \* comments table: page_id -> number of its rows (>= 1)
    page_files,      \* page_files table: page_id -> number of its rows (>= 1)
    last,            \* the last request served and its response
    txn,             \* the requests in flight, between two of their statements
    maxOrderAsString, \* the driver hands the BIGINT column maxOrder over as a string
    mirror,          \* the client's WorkspaceState (context reducer): its page tree
    pool             \* the connection pool: the connections handed out and not released

vars == <<pages, content_blocks, comments, page_files, last, txn, maxOrderAsString, mirror, pool>>

\* ------------------------------------------------- the connection pool
\* createPool: connectionLimit
ConnectionLimit == 10

\* a new pool: no connection handed out
initialPool == [inUse |-> 0]

\* ------------------------------------------------- the client's state
\* state.workspace === null
NoWorkspace == <<>>

\* initialState of the workspace context: no workspace, no current page, no
\* error.  currentPage is held by its id, the only part of it the reducer and
\* the operations read.
initialState == [workspace |-> NoWorkspace, currentPage |-> NULL, error |-> Null]

\* ------------------------------------------------------------ JS helpers
\* variant: every value counts as truthy
Truthy_Always(s) == TRUE

\* JS truthiness of a string-valued field
Truthy(s) == s # Undefined /\ s # Null

\* a || b on string-valued fields
Or(a, b) == IF Truthy(a) THEN a ELSE b

\* undefined -> NULL, as in `finalSubsectionId || null`
OrNull(s) == IF Truthy(s) THEN s ELSE Null

\* ----------------------------------------------------------- SQL helpers
Max(S) == CHOOSE m \in S : \A x \in S : x <= m
Min(S) == CHOOSE m \in S : \A x \in S : m <= x

\* SELECT id FROM pages WHERE parent_id = ?
ChildrenOf(pg, id) == {c \in DOMAIN pg : pg[c].parent_id = id}

\* a set of ids as the sequence a SELECT returns (index order: ascending id)
RECURSIVE SetToSeq(_)
SetToSeq(S) == IF S = {} THEN <<>> ELSE <<Min(S)>> \o SetToSeq(S \ {Min(S)})

SeqToSet(s) == {s[i] : i \in 1..Len(s)}

\* the three sibling queries of POST's order calculation
SiblingsByParent(pg, parentId) == {p \in DOMAIN pg : pg[p].parent_id = parentId}
SiblingsBySubsection(pg, sub) ==
    {p \in DOMAIN pg : pg[p].subsection_id = sub /\ pg[p].parent_id = NULL}
SiblingsBySection(pg, sec) ==
    {p \in DOMAIN pg : pg[p].section_id = sec /\ pg[p].subsection_id = Null
                       /\ pg[p].parent_id = NULL}

\* COALESCE(MAX(page_order), -1)
CoalesceMaxOrder(pg, S) == IF S = {} THEN -1 ELSE Max({pg[p].page_order : p \in S})

\* String(n) + 1 in JS appends the character "1"; MySQL reads the text back
\* as an integer when it stores it in the INT column page_order
ConcatOne(n) == IF n >= 0 THEN 10 * n + 1 ELSE 10 * n - 1

\* (orderRows[0]?.maxOrder || -1) + 1.  COALESCE(MAX(page_order), -1) is a
\* BIGINT column; the pool sets supportBigNumbers and bigNumberStrings, so
\* maxOrder reaches the handler as a number or as a string, depending on the
\* driver.  A number: 0 is falsy, + adds.  A string: every non-empty string
\* is truthy, + concatenates.
NextOrder(maxOrder) ==
    IF maxOrderAsString THEN ConcatOne(maxOrder)
    ELSE (IF maxOrder = 0 THEN -1 ELSE maxOrder) + 1

\* ------------------------------------------------------- tree helpers
\* getAllChildPageIdsRecursive: breadth-first, allIds starts as [parentId]
RECURSIVE Bfs(_, _, _, _)
Bfs(pg, allIds, toProcess, processed) ==
    IF toProcess = <<>> THEN allIds
    ELSE LET currentId == Head(toProcess)
             rest == Tail(toProcess)
         IN IF currentId \in processed
            THEN Bfs(pg, allIds, rest, processed)
            ELSE LET childRows == SetToSeq(ChildrenOf(pg, currentId))
                     new == SelectSeq(childRows, LAMBDA c : c \notin SeqToSet(allIds))
                 IN Bfs(pg, allIds \o new, rest \o new, processed \cup {currentId})

\* variant: the id list starts empty, so the page itself is not collected
getAllChildPageIdsRecursive_NoSelf(pg, parentId) == Bfs(pg, <<>>, <<parentId>>, {})

getAllChildPageIdsRecursive(pg, parentId) == Bfs(pg, <<parentId>>, <<parentId>>, {})

\* variant: only the direct children of the page are looked at
checkCircularReference_DirectOnly(pg, pageId, newParentId) ==
    newParentId \in ChildrenOf(pg, pageId)

\* variant: no descendant is ever found
checkCircularReference_Never(pg, pageId, newParentId) == FALSE

\* checkCircularReference: descendants.includes(newParentId)
checkCircularReference(pg, pageId, newParentId) ==
    newParentId \in SeqToSet(getAllChildPageIdsRecursive(pg, pageId))

\* getPageDepth: walk parent_id, break after the 51st hop
RECURSIVE DepthWalk(_, _, _)
DepthWalk(pg, currentId, depth) ==
    IF currentId \notin DOMAIN pg \/ pg[currentId].parent_id = NULL THEN depth
    ELSE IF depth + 1 > DepthCeiling THEN depth + 1
    ELSE DepthWalk(pg, pg[currentId].parent_id, depth + 1)

getPageDepth(pg, pageId) == DepthWalk(pg, pageId, 0)

\* sortPagesByDepth: the depth of every id is computed first, then
\* Array.prototype.sort((a, b) => b.depth - a.depth), stable and descending:
\* an entry comes after every deeper entry and after every equally deep
\* entry that stood before it.
sortPagesByDepth(pg, pageIds) ==
    LET n == Len(pageIds)
        pageDepths == <<>> \o [i \in 1..n |-> getPageDepth(pg, pageIds[i])]
        place == <<>> \o [i \in 1..n |->
                     1 + Cardinality({j \in 1..n :
                             \/ pageDepths[j] > pageDepths[i]
                             \/ (pageDepths[j] = pageDepths[i] /\ j < i)})]
    IN [k \in 1..n |-> pageIds[CHOOSE i \in 1..n : place[i] = k]]

\* ------------------------------------------------------ the four tables
Db == [pages |-> pages, content_blocks |-> content_blocks,
       comments |-> comments, page_files |-> page_files]

Restrict(f, D) == [x \in D |-> f[x]]

\* the number of rows of a comments / page_files table
RECURSIVE SumOver(_, _)
SumOver(table, D) ==
    IF D = {} THEN 0 ELSE table[Min(D)] + SumOver(table, D \ {Min(D)})

RowCount(table) == SumOver(table, DOMAIN table)

\* FOREIGN KEY (parent_id) REFERENCES pages(id) ON DELETE CASCADE: the rows
\* that go when the rows of S go
RECURSIVE CascadeSet(_, _)
CascadeSet(pg, S) ==
    LET more == {c \in DOMAIN pg : pg[c].parent_id \in S} \ S
    IN IF more = {} THEN S ELSE CascadeSet(pg, S \cup more)

\* DELETE FROM pages WHERE id = ?, with the ON DELETE CASCADE keys of
\* pages, content_blocks, comments and page_files
DeletePageRow(db, id) ==
    IF id \notin DOMAIN db.pages THEN db
    ELSE LET gone == CascadeSet(db.pages, {id})
         IN [pages |-> Restrict(db.pages, DOMAIN db.pages \ gone),
             content_blocks |->
                 Restrict(db.content_blocks,
                          {b \in DOMAIN db.content_blocks :
                               db.content_blocks[b].page_id \notin gone}),
             comments |-> Restrict(db.comments, DOMAIN db.comments \ gone),
             page_files |-> Restrict(db.page_files, DOMAIN db.page_files \ gone)]

\* for (const pageIdToDelete of sortedPageIds) DELETE FROM pages WHERE id = ?
RECURSIVE DeletePageRows(_, _)
DeletePageRows(db, ids) ==
    IF ids = <<>> THEN db
    ELSE DeletePageRows(DeletePageRow(db, Head(ids)), Tail(ids))

\* DELETE FROM content_blocks / comments / page_files WHERE page_id IN (...)
DeleteDependents(db, ids) ==
    [pages |-> db.pages,
     content_blocks |->
         Restrict(db.content_blocks,
                  {b \in DOMAIN db.content_blocks :
                       db.content_blocks[b].page_id \notin ids}),
     comments |-> Restrict(db.comments, DOMAIN db.comments \ ids),
     page_files |-> Restrict(db.page_files, DOMAIN db.page_files \ ids)]

\* ------------------------------------------------------------ responses
Response(op, id, status, error) ==
    [op |-> op, id |-> id, status |-> status, error |-> error,
     hasParent |-> FALSE, parentId |-> NULL,
     sectionId |-> Undefined, subsectionId |-> Undefined,
     hasOrder |-> FALSE, order |-> 0,
     workspaceId |-> Undefined, cascade |-> FALSE, deletedIds |-> <<>>,
     pageIds |-> <<>>, notify |-> "none",
     affected |-> [content_blocks |-> 0, comments |-> 0, page_files |-> 0]]

Init ==
    /\ pages = <<>>
    /\ content_blocks = <<>>
    /\ comments = <<>>
    /\ page_files = <<>>
    /\ last = Response("none", NULL, 0, "")
    /\ txn = [t \in TxnIds |-> [pc |-> "idle"]]
    /\ maxOrderAsString \in BOOLEAN
    /\ mirror = initialState
    /\ pool = initialPool

\* --------------------------------------------------------- request inputs
ParentInputs == {NULL} \cup PageIds

\* ------------------------------------------------- POST /api/pages (create)
\* parentId = NULL stands for an absent (or null) parentId: the handler only
\* tests its truthiness.
PostOutcome(workspaceId, sectionId, subsectionId, parentId, hasOrder, order) ==
    LET req == [Response("POST", NULL, 0, "") EXCEPT
                    !.workspaceId = workspaceId, !.sectionId = sectionId,
                    !.subsectionId = subsectionId, !.parentId = parentId,
                    !.hasParent = (parentId # NULL),
                    !.hasOrder = hasOrder, !.order = order]
        fail(status, error) ==
            [db |-> Db, res |-> [req EXCEPT !.status = status, !.error = error]]
    IN
    IF ~Truthy(workspaceId)
    THEN fail(400, "Workspace ID and title are required")
    ELSE IF parentId = NULL /\ ~Truthy(sectionId)
    THEN fail(400, "Section ID is required for root pages")
    ELSE IF parentId # NULL /\ parentId \notin DOMAIN pages
    THEN fail(404, "Parent page not found")
    ELSE
    LET finalSectionId ==
            IF parentId # NULL THEN Or(sectionId, pages[parentId].section_id)
            ELSE sectionId
        finalSubsectionId ==
            IF parentId # NULL THEN Or(subsectionId, pages[parentId].subsection_id)
            ELSE subsectionId
    IN
    IF workspaceId \notin Workspaces
    THEN fail(404, "Workspace not found")
    ELSE IF ~Truthy(finalSectionId)
    THEN fail(400, "Section ID is required for all pages")
    ELSE IF finalSectionId \notin Sections
            \/ SectionWorkspace[finalSectionId] # workspaceId
    THEN fail(404, "Section not found or does not belong to workspace")
    ELSE IF Truthy(finalSubsectionId)
            /\ (finalSubsectionId \notin Subsections
                \/ SubsectionSection[finalSubsectionId] # finalSectionId)
    THEN fail(404, "Subsection not found or does not belong to section")
    ELSE
    LET siblings ==
            IF parentId # NULL THEN SiblingsByParent(pages, parentId)
            ELSE IF Truthy(finalSubsectionId)
                 THEN SiblingsBySubsection(pages, finalSubsectionId)
                 ELSE SiblingsBySection(pages, finalSectionId)
        pageOrder ==
            IF hasOrder THEN order
            ELSE NextOrder(CoalesceMaxOrder(pages, siblings))
        pageId == Min(PageIds \ DOMAIN pages)
        row == [workspace_id |-> workspaceId, section_id |-> finalSectionId,
                subsection_id |-> OrNull(finalSubsectionId),
                parent_id |-> parentId, page_order |-> pageOrder]
    IN [db |-> [Db EXCEPT !.pages = (pageId :> row) @@ pages],
        res |-> [req EXCEPT !.status = 201, !.id = pageId]]

POST(workspaceId, sectionId, subsectionId, parentId, hasOrder, order) ==
    LET out == PostOutcome(workspaceId, sectionId, subsectionId, parentId,
                           hasOrder, order)
    IN /\ PageIds \ DOMAIN pages # {}
       /\ out.res.status = 201 =>
              out.db.pages[out.res.id].page_order \in -MaxNegOrder..MaxOrder
       /\ pages' = out.db.pages
       /\ last' = out.res
       /\ UNCHANGED <<content_blocks, comments, page_files, txn, maxOrderAsString, mirror, pool>>

\* ---------------------------------------------- PUT /api/pages (update, move)
\* The reads of PUT: everything up to the UPDATE statement.  `pg` is the
\* pages table the reads see.  The result is either a response (the request
\* ended with a rollback) or the UPDATE to run.
PutPlan(pg, id, hasTitle, hasParent, parentId, sectionId, subsectionId, hasOrder, order) ==
    LET req == [Response("PUT", id, 0, "") EXCEPT
                    !.hasParent = hasParent, !.parentId = parentId,
                    !.sectionId = sectionId, !.subsectionId = subsectionId,
                    !.hasOrder = hasOrder, !.order = order]
        fail(status, error) ==
            [done |-> TRUE, res |-> [req EXCEPT !.status = status, !.error = error]]
    IN
    IF id \notin DOMAIN pg THEN fail(404, "Page not found")
    ELSE
    LET currentPage == pg[id]
        parentChanges == hasParent /\ parentId # currentPage.parent_id
    IN
    IF parentChanges /\ parentId = id
    THEN fail(400, "Page cannot be its own parent")
    ELSE IF parentChanges /\ parentId # NULL /\ checkCircularReference(pg, id, parentId)
    THEN fail(400, "This would create a circular reference")
    ELSE
    LET inherits == parentChanges /\ parentId # NULL /\ parentId \in DOMAIN pg
        finalSectionId ==
            IF sectionId # Undefined THEN sectionId
            ELSE IF inherits THEN pg[parentId].section_id
            ELSE currentPage.section_id
        finalSubsectionId ==
            IF subsectionId # Undefined THEN subsectionId
            ELSE IF inherits THEN pg[parentId].subsection_id
            ELSE currentPage.subsection_id
        setSection == finalSectionId # currentPage.section_id
        setSubsection == finalSubsectionId # currentPage.subsection_id
    IN
    IF Truthy(finalSectionId) /\ finalSectionId # currentPage.section_id
       /\ finalSectionId \notin Sections
    THEN fail(404, "Section not found")
    ELSE IF Truthy(finalSubsectionId) /\ finalSubsectionId # currentPage.subsection_id
            /\ (finalSubsectionId \notin Subsections
                \/ SubsectionSection[finalSubsectionId] # finalSectionId)
    THEN fail(404, "Subsection not found or does not belong to section")
    ELSE IF ~(hasTitle \/ hasParent \/ setSection \/ setSubsection \/ hasOrder)
    THEN fail(400, "No fields to update")
    ELSE [done |-> FALSE, res |-> req,
          hasParent |-> hasParent, parentId |-> parentId,
          setSection |-> setSection, sectionId |-> finalSectionId,
          setSubsection |-> setSubsection, subsectionId |-> finalSubsectionId,
          hasOrder |-> hasOrder, order |-> order]

\* UPDATE pages SET ... WHERE id = ?, then commit.  `pg` is the table as it is
\* when the statement runs.  The foreign key on parent_id refuses a parent
\* that has no row (the error is caught: rollback, 500).
PutWrite(pg, plan) ==
    LET id == plan.res.id
    IN
    IF plan.hasParent /\ plan.parentId # NULL /\ plan.parentId \notin DOMAIN pg
    THEN [pages |-> pg,
          res |-> [plan.res EXCEPT !.status = 500, !.error = "Internal server error"]]
    ELSE IF id \notin DOMAIN pg
    THEN [pages |-> pg,
          res |-> [plan.res EXCEPT !.status = 404,
                                   !.error = "Page not found or no changes made"]]
    ELSE [pages |->
              [pg EXCEPT ![id] =
                  [workspace_id |-> @.workspace_id,
                   section_id |-> IF plan.setSection THEN plan.sectionId
                                  ELSE @.section_id,
                   subsection_id |-> IF plan.setSubsection THEN plan.subsectionId
                                     ELSE @.subsection_id,
                   parent_id |-> IF plan.hasParent THEN plan.parentId
                                 ELSE @.parent_id,
                   page_order |-> IF plan.hasOrder THEN plan.order
                                  ELSE @.page_order]],
          res |-> [plan.res EXCEPT !.status = 200]]

PUT(id, hasTitle, hasParent, parentId, sectionId, subsectionId, hasOrder, order) ==
    LET plan == PutPlan(pages, id, hasTitle, hasParent, parentId, sectionId,
                        subsectionId, hasOrder, order)
    IN /\ IF plan.done
          THEN pages' = pages /\ last' = plan.res
          ELSE LET w == PutWrite(pages, plan)
               IN pages' = w.pages /\ last' = w.res
       /\ UNCHANGED <<content_blocks, comments, page_files, txn, maxOrderAsString, mirror, pool>>

\* ------------------------------------------------- DELETE /api/pages
DeleteOutcome(pageId, deleteChildren) ==
    LET req == [Response("DELETE", pageId, 0, "") EXCEPT !.cascade = deleteChildren]
    IN
    IF pageId \notin DOMAIN pages
    THEN [db |-> Db, res |-> [req EXCEPT !.status = 404, !.error = "Page not found"]]
    ELSE
    LET allPageIds ==
            IF deleteChildren THEN getAllChildPageIdsRecursive(pages, pageId)
            ELSE <<pageId>>
        db1 == DeleteDependents(Db, SeqToSet(allPageIds))
        affectedRows ==
            [content_blocks |-> Cardinality(DOMAIN content_blocks)
                                - Cardinality(DOMAIN db1.content_blocks),
             comments |-> RowCount(comments) - RowCount(db1.comments),
             page_files |-> RowCount(page_files) - RowCount(db1.page_files)]
        sortedPageIds == sortPagesByDepth(db1.pages, allPageIds)
        db2 == DeletePageRows(db1, sortedPageIds)
    IN [db |-> db2,
        res |-> [req EXCEPT !.status = 200, !.deletedIds = allPageIds,
                            !.affected = affectedRows]]

DELETE(pageId, deleteChildren) ==
    LET out == DeleteOutcome(pageId, deleteChildren)
    IN /\ pages' = out.db.pages
       /\ content_blocks' = out.db.content_blocks
       /\ comments' = out.db.comments
       /\ page_files' = out.db.page_files
       /\ last' = out.res
       /\ UNCHANGED <<txn, maxOrderAsString, mirror, pool>>

\* ------------------------------------------------- POST /api/blocks
\* insertAfter = NULL stands for an absent insertAfter.
\* UPDATE content_blocks SET block_order = block_order + 1
\*   WHERE page_id = ? AND block_order >= ?
ShiftFrom(blocks, pageId, blockOrder) ==
    [b \in DOMAIN blocks |->
        IF blocks[b].page_id = pageId /\ blocks[b].block_order >= blockOrder
        THEN [blocks[b] EXCEPT !.block_order = @ + 1]
        ELSE blocks[b]]

BlockPostOutcome(pageId, hasOrder, order, insertAfter) ==
    LET req == [Response("POST_BLOCK", NULL, 0, "") EXCEPT
                    !.parentId = pageId, !.hasOrder = hasOrder, !.order = order]
    IN
    IF pageId \notin DOMAIN pages
    THEN [blocks |-> content_blocks,
          res |-> [req EXCEPT !.status = 404, !.error = "Page not found"]]
    ELSE
    LET shifts == insertAfter # NULL /\ insertAfter \in DOMAIN content_blocks
        blockOrder ==
            IF shifts THEN content_blocks[insertAfter].block_order + 1
            ELSE IF insertAfter # NULL \/ hasOrder THEN (IF hasOrder THEN order ELSE 0)
            ELSE LET mine == {b \in DOMAIN content_blocks :
                                  content_blocks[b].page_id = pageId}
                 IN IF mine = {} THEN 0
                    ELSE Max({content_blocks[b].block_order : b \in mine}) + 1
        shifted ==
            IF shifts THEN ShiftFrom(content_blocks, pageId, blockOrder)
            ELSE content_blocks
        blockId == Min(BlockIds \ DOMAIN content_blocks)
    IN [blocks |-> (blockId :> [page_id |-> pageId, block_order |-> blockOrder])
                   @@ shifted,
        res |-> [req EXCEPT !.status = 201, !.id = blockId]]

POST_BLOCK(pageId, hasOrder, order, insertAfter) ==
    LET out == BlockPostOutcome(pageId, hasOrder, order, insertAfter)
    IN /\ BlockIds \ DOMAIN content_blocks # {}
       /\ \A b \in DOMAIN out.blocks : out.blocks[b].block_order <= MaxBlockOrder
       /\ content_blocks' = out.blocks
       /\ last' = out.res
       /\ UNCHANGED <<pages, comments, page_files, txn, maxOrderAsString, mirror, pool>>

\* ------------------------------------------------- PUT /api/blocks
\* hasContent: the body carries a content, type or metadata that differs
\* from the stored one.
BlockPutOutcome(id, hasContent, hasOrder, order) ==
    LET req == [Response("PUT_BLOCK", id, 0, "") EXCEPT
                    !.hasOrder = hasOrder, !.order = order]
    IN
    IF id \notin DOMAIN content_blocks
    THEN [blocks |-> content_blocks,
          res |-> [req EXCEPT !.status = 404, !.error = "Block not found"]]
    ELSE
    LET currentBlock == content_blocks[id]
        setOrder == hasOrder /\ order # currentBlock.block_order
        res == [req EXCEPT !.parentId = currentBlock.page_id]
    IN IF ~(hasContent \/ setOrder)
       THEN [blocks |-> content_blocks,
             res |-> [res EXCEPT !.status = 400, !.error = "No changes detected"]]
       ELSE [blocks |-> IF setOrder
                        THEN [content_blocks EXCEPT ![id].block_order = order]
                        ELSE content_blocks,
             res |-> [res EXCEPT !.status = 200]]

PUT_BLOCK(id, hasContent, hasOrder, order) ==
    LET out == BlockPutOutcome(id, hasContent, hasOrder, order)
    IN /\ content_blocks' = out.blocks
       /\ last' = out.res
       /\ UNCHANGED <<pages, comments, page_files, txn, maxOrderAsString, mirror, pool>>

\* ------------------------------------------------- DELETE /api/blocks
\* variant: the UPDATE without its page_id condition
DecrementAfter_AnyPage(blocks, pageId, k) ==
    [b \in DOMAIN blocks |->
        IF blocks[b].block_order > k
        THEN [blocks[b] EXCEPT !.block_order = @ - 1]
        ELSE blocks[b]]

\* UPDATE content_blocks SET block_order = block_order - 1
\*   WHERE page_id = ? AND block_order > ?
DecrementAfter(blocks, pageId, k) ==
    [b \in DOMAIN blocks |->
        IF blocks[b].page_id = pageId /\ blocks[b].block_order > k
        THEN [blocks[b] EXCEPT !.block_order = @ - 1]
        ELSE blocks[b]]

BlockDeleteOutcome(blockId) ==
    LET req == Response("DELETE_BLOCK", blockId, 0, "")
    IN
    IF blockId \notin DOMAIN content_blocks
    THEN [blocks |-> content_blocks,
          res |-> [req EXCEPT !.status = 404, !.error = "Block not found"]]
    ELSE
    LET blockData == content_blocks[blockId]
        deleted == Restrict(content_blocks, DOMAIN content_blocks \ {blockId})
    IN [blocks |-> DecrementAfter(deleted, blockData.page_id, blockData.block_order),
        res |-> [req EXCEPT !.status = 200, !.parentId = blockData.page_id,
                            !.order = blockData.block_order]]

DELETE_BLOCK(blockId) ==
    LET out == BlockDeleteOutcome(blockId)
    IN /\ content_blocks' = out.blocks
       /\ last' = out.res
       /\ UNCHANGED <<pages, comments, page_files, txn, maxOrderAsString, mirror, pool>>

\* ------------------------------------------------- comments, page_files rows
\* A row of comments / page_files names an existing page (FOREIGN KEY page_id).
AddRow(table, pageId) ==
    IF pageId \in DOMAIN table THEN [table EXCEPT ![pageId] = @ + 1]
    ELSE (pageId :> 1) @@ table

AddComment(pageId) ==
    /\ pageId \in DOMAIN pages
    /\ comments' = AddRow(comments, pageId)
    /\ last' = Response("none", NULL, 0, "")
    /\ UNCHANGED <<pages, content_blocks, page_files, txn, maxOrderAsString, mirror, pool>>

AddPageFile(pageId) ==
    /\ pageId \in DOMAIN pages
    /\ page_files' = AddRow(page_files, pageId)
    /\ last' = Response("none", NULL, 0, "")
    /\ UNCHANGED <<pages, content_blocks, comments, txn, maxOrderAsString, mirror, pool>>

\* ------------------------------------------------------------------ Spec
\* Requests served one after the other; the requests name a parent page (or
\* none) and leave section, subsection and order to the handler.
TreeCreate ==
    \E sectionId \in {Undefined, "S1"}, parentId \in ParentInputs :
        POST("W1", sectionId, Undefined, parentId, FALSE, 0)

TreeMove ==
    \E id \in PageIds, parentId \in ParentInputs :
        PUT(id, FALSE, TRUE, parentId, Undefined, Undefined, FALSE, 0)

TreeDelete ==
    \E pageId \in PageIds, deleteChildren \in BOOLEAN :
        DELETE(pageId, deleteChildren)

Next ==
    \/ TreeCreate
    \/ TreeMove
    \/ TreeDelete

Spec == Init /\ [][Next]_vars

\* ----------------------------------------------------------- SpecCascade
\* Requests served one after the other; pages own content blocks, comments
\* and files.  At most MaxPagesSmall pages, and at most MaxRows rows in
\* content_blocks, comments and page_files together.
DependentRows ==
    Cardinality(DOMAIN content_blocks) + RowCount(comments) + RowCount(page_files)

CascadeCreate ==
    \E sectionId \in {Undefined, "S1"}, parentId \in ParentInputs :
        /\ Cardinality(DOMAIN pages) < MaxPagesSmall
        /\ POST("W1", sectionId, Undefined, parentId, FALSE, 0)

CreateBlock ==
    \E pageId \in PageIds :
        /\ DependentRows < MaxRows
        /\ POST_BLOCK(pageId, FALSE, 0, NULL)

CreateComment ==
    \E pageId \in PageIds : DependentRows < MaxRows /\ AddComment(pageId)

CreatePageFile ==
    \E pageId \in PageIds : DependentRows < MaxRows /\ AddPageFile(pageId)

NextCascade ==
    \/ CascadeCreate
    \/ TreeDelete
    \/ CreateBlock
    \/ CreateComment
    \/ CreatePageFile

SpecCascade == Init /\ [][NextCascade]_vars

\* ------------------------------------------------------------- SpecOrder
\* Requests served one after the other; creates of top-level pages choose
\* a position (or none), updates set a section or an order.
\* Sections S1 and S2, no subsections, no blocks, comments or files.
OrderCreate ==
    \E sectionId \in {"S1", "S2"}, hasOrder \in BOOLEAN, order \in 0..1 :
        /\ (~hasOrder => order = 0)
        /\ POST("W1", sectionId, Undefined, NULL, hasOrder, order)

OrderMoveSection ==
    \E id \in PageIds, sectionId \in {"S1", "S2"} :
        PUT(id, FALSE, FALSE, NULL, sectionId, Undefined, FALSE, 0)

OrderSet ==
    \E id \in PageIds, order \in 0..1 :
        PUT(id, FALSE, FALSE, NULL, Undefined, Undefined, TRUE, order)

OrderDelete == \E pageId \in PageIds : DELETE(pageId, TRUE)

NextOrderSpec ==
    \/ OrderCreate
    \/ OrderMoveSection
    \/ OrderSet
    \/ OrderDelete

SpecOrder == Init /\ [][NextOrderSpec]_vars

\* ----------------------------------------------------------- SpecContain
\* Requests served one after the other; creates and moves choose section
\* and subsection and leave the order to the handler.  A move either names
\* a new parent or names a section (and subsection), as the client's
\* movePage does.  At most MaxPagesSmall pages.
ContainCreate ==
    \E sectionId \in {Undefined, "S1", "S2"}, subsectionId \in {Undefined, "Sub2"},
       parentId \in ParentInputs :
        /\ Cardinality(DOMAIN pages) < MaxPagesSmall
        /\ (parentId # NULL => sectionId = Undefined /\ subsectionId = Undefined)
        /\ POST("W1", sectionId, subsectionId, parentId, FALSE, 0)

ContainMove ==
    \E id \in PageIds, parentId \in ParentInputs :
        PUT(id, FALSE, TRUE, parentId, Undefined, Undefined, FALSE, 0)

ContainMoveSection ==
    \E id \in PageIds, sectionId \in Sections, subsectionId \in {Undefined, "Sub2"} :
        PUT(id, FALSE, FALSE, NULL, sectionId, subsectionId, FALSE, 0)

ContainDelete == \E pageId \in PageIds : DELETE(pageId, TRUE)

NextContain ==
    \/ ContainCreate
    \/ ContainMove
    \/ ContainMoveSection
    \/ ContainDelete

SpecContain == Init /\ [][NextContain]_vars

\* -------------------------------------------------------------- SpecConc
\* Two PUT requests in flight, each on its own pooled connection.  The
\* handler's SELECTs are plain (non-locking) reads inside its transaction;
\* its only write is the final UPDATE, followed at once by the commit.
\* PutBegin is the handler up to the UPDATE, PutCommit the UPDATE and commit.
PutBegin(t, id, parentId) ==
    LET plan == PutPlan(pages, id, FALSE, TRUE, parentId, Undefined, Undefined,
                        FALSE, 0)
    IN /\ txn[t].pc = "idle"
       /\ IF plan.done
          THEN last' = plan.res /\ UNCHANGED txn
          ELSE /\ txn' = [txn EXCEPT ![t] = [pc |-> "validated", plan |-> plan]]
               /\ UNCHANGED last
       /\ UNCHANGED <<pages, content_blocks, comments, page_files, maxOrderAsString, mirror, pool>>

PutCommit(t) ==
    /\ txn[t].pc = "validated"
    /\ LET w == PutWrite(pages, txn[t].plan)
       IN pages' = w.pages /\ last' = w.res
    /\ txn' = [txn EXCEPT ![t] = [pc |-> "idle"]]
    /\ UNCHANGED <<content_blocks, comments, page_files, maxOrderAsString, mirror, pool>>

\* A request names pages that exist when it is sent: ids are random UUIDs, no
\* client knows one before the create that generates it has answered.
ConcMoveBegin ==
    \E t \in TxnIds, id \in DOMAIN pages, parentId \in {NULL} \cup DOMAIN pages :
        PutBegin(t, id, parentId)

ConcMoveCommit == \E t \in TxnIds : PutCommit(t)

NextConc ==
    \/ TreeCreate
    \/ ConcMoveBegin
    \/ ConcMoveCommit

SpecConc == Init /\ [][NextConc]_vars

\* =================================================================== claims
\* a is a proper ancestor of d: walking parent_id up from d meets a
RECURSIVE WalkMeets(_, _, _, _)
WalkMeets(pg, a, d, hops) ==
    /\ d \in DOMAIN pg
    /\ pg[d].parent_id # NULL
    /\ \/ pg[d].parent_id = a
       \/ hops > 0 /\ WalkMeets(pg, a, pg[d].parent_id, hops - 1)

IsAncestor(pg, a, d) == WalkMeets(pg, a, d, Cardinality(DOMAIN pg))

\* walking parent_id up from p ends at a page with no parent within `hops`
RECURSIVE ReachesRoot(_, _, _)
ReachesRoot(pg, p, hops) ==
    /\ p \in DOMAIN pg
    /\ \/ pg[p].parent_id = NULL
       \/ hops > 0 /\ ReachesRoot(pg, pg[p].parent_id, hops - 1)

Acyclic(pg) ==
    \A p \in DOMAIN pg :
        /\ ~IsAncestor(pg, p, p)
        /\ ReachesRoot(pg, p, Cardinality(DOMAIN pg))

\* the sibling group of a page: its parent page, else its subsection, else
\* its section
GroupKey(pg, p) ==
    IF pg[p].parent_id # NULL THEN <<pg[p].parent_id, "", "">>
    ELSE IF pg[p].subsection_id # Null THEN <<NULL, "", pg[p].subsection_id>>
    ELSE <<NULL, pg[p].section_id, "">>

Group(pg, key) == {q \in DOMAIN pg : GroupKey(pg, q) = key}

OrdersOf(pg, G) == {pg[q].page_order : q \in G}

\* the orders of the group are exactly 0..n-1
GroupContiguous(pg, G) ==
    /\ OrdersOf(pg, G) = 0..(Cardinality(G) - 1)
    /\ \A q1, q2 \in G : pg[q1].page_order = pg[q2].page_order => q1 = q2

Contiguous(pg) == \A p \in DOMAIN pg : GroupContiguous(pg, Group(pg, GroupKey(pg, p)))

Succeeded == last.status \in {200, 201}

CircularErrors ==
    {"Page cannot be its own parent", "This would create a circular reference"}

\* C1: after any sequence of successful creates and moves no page is its own
\* ancestor, and walking parent links from any page ends at a page without
\* parent within as many hops as there are pages.
C1_Acyclic == Acyclic(pages)

\* C1 witness: a move has succeeded and left a chain of three pages.
C1_Witness ==
    /\ last.op = "PUT" /\ last.status = 200 /\ last.parentId # NULL
    /\ \E p \in DOMAIN pages : getPageDepth(pages, p) = 2

\* C2: two overlapping reparent requests never both commit so that the
\* pages table holds a cycle.
C2_ConcurrentMovesNoCycle ==
    (last.op = "PUT" /\ last.status = 200) => Acyclic(pages)

\* C3: a move of page A whose new parent is A itself or a descendant of A
\* is answered 400 with a circular-reference error and changes no page row.
C3_CircularMoveRejected ==
    [][(/\ last'.op = "PUT"
        /\ last'.id \in DOMAIN pages
        /\ last'.hasParent
        /\ \/ last'.parentId = last'.id
           \/ IsAncestor(pages, last'.id, last'.parentId))
       => (/\ last'.status = 400
           /\ last'.error \in CircularErrors
           /\ pages' = pages)]_vars

\* C3 witness: a move under a grandchild was refused.
C3_Witness ==
    /\ last.op = "PUT" /\ last.status = 400
    /\ last.error = "This would create a circular reference"
    /\ last.parentId \in DOMAIN pages
    /\ pages[last.parentId].parent_id \in DOMAIN pages
    /\ pages[pages[last.parentId].parent_id].parent_id = last.id

\* C4: after every committed page create, update, move or delete the orders
\* of every sibling group are exactly 0..n-1.
C4_SiblingOrdersContiguous ==
    (last.op \in {"POST", "PUT", "DELETE"} /\ Succeeded) => Contiguous(pages)

\* C5: a page created without an order gets the largest order of its
\* siblings plus one, and 0 when it has no siblings.
C5_AppendAtMaxPlusOne ==
    (last.op = "POST" /\ last.status = 201 /\ ~last.hasOrder) =>
        LET siblings == Group(pages, GroupKey(pages, last.id)) \ {last.id}
        IN pages[last.id].page_order =
               IF siblings = {} THEN 0 ELSE Max(OrdersOf(pages, siblings)) + 1

\* C6: a page created at the position after sibling X (order(X)+1) gets that
\* order, and every sibling whose order was at least that value moves up by
\* one.
C6_InsertShiftsSiblings ==
    [][(/\ last'.op = "POST" /\ last'.status = 201 /\ last'.hasOrder
        /\ \E x \in Group(pages', GroupKey(pages', last'.id)) \ {last'.id} :
               pages[x].page_order + 1 = last'.order)
       => LET new == last'.id
              siblings == Group(pages', GroupKey(pages', new)) \ {new}
          IN /\ pages'[new].page_order = last'.order
             /\ \A q \in siblings :
                    pages'[q].page_order =
                        IF pages[q].page_order >= last'.order
                        THEN pages[q].page_order + 1
                        ELSE pages[q].page_order]_vars

\* C7: when a move takes a page to another sibling group, the group it left
\* has no gap and the group it joined has no two pages with the same order.
C7_MoveRenumbersBothGroups ==
    [][(/\ last'.op = "PUT" /\ last'.status = 200
        /\ last'.id \in DOMAIN pages
        /\ Contiguous(pages)
        /\ GroupKey(pages', last'.id) # GroupKey(pages, last'.id))
       => LET old == Group(pages', GroupKey(pages, last'.id))
              new == Group(pages', GroupKey(pages', last'.id))
          IN /\ OrdersOf(pages', old) = 0..(Cardinality(old) - 1)
             /\ \A q1, q2 \in new :
                    pages'[q1].page_order = pages'[q2].page_order => q1 = q2]_vars

\* C8: after every committed create or move, every page with a parent page
\* has the section and the subsection of that parent.
C8_ContainmentInherited ==
    (last.op \in {"POST", "PUT"} /\ Succeeded) =>
        \A p \in DOMAIN pages :
            pages[p].parent_id # NULL =>
                /\ pages[p].section_id = pages[pages[p].parent_id].section_id
                /\ pages[p].subsection_id = pages[pages[p].parent_id].subsection_id

\* C9: a move that names a section is accepted only when that section
\* belongs to the workspace of the page moved.
C9_OverrideInSameWorkspace ==
    (last.op = "PUT" /\ last.status = 200 /\ last.sectionId # Undefined) =>
        SectionWorkspace[last.sectionId] = pages[last.id].workspace_id

\* C10: after a cascading delete of page N, N and every page that was a
\* descendant of N are gone, and no content block, comment or page file
\* names any of them.
C10_CascadeComplete ==
    [][(last'.op = "DELETE" /\ last'.status = 200 /\ last'.cascade)
       => LET N == last'.id
              gone == {d \in DOMAIN pages : d = N \/ IsAncestor(pages, N, d)}
          IN \A d \in gone :
                 /\ d \notin DOMAIN pages'
                 /\ \A b \in DOMAIN content_blocks' : content_blocks'[b].page_id # d
                 /\ d \notin DOMAIN comments'
                 /\ d \notin DOMAIN page_files']_vars

\* C10 witness: a cascading delete removed a page with a descendant, a
\* content block and a comment.
C10_Witness ==
    /\ last.op = "DELETE" /\ last.status = 200 /\ last.cascade
    /\ Len(last.deletedIds) >= 2
    /\ last.affected.content_blocks >= 1
    /\ last.affected.comments >= 1

\* C11: the ids a delete returns are exactly the page rows the delete
\* removed: the target and every page that ceased to exist with it.
C11_DeletedIdsExact ==
    [][(last'.op = "DELETE" /\ last'.status = 200)
       => SeqToSet(last'.deletedIds) = DOMAIN pages \ DOMAIN pages']_vars

\* C12: a delete with cascade disabled on a page that has a child page is
\* answered with a validation error (400) and removes no page, content
\* block, comment or page file.
C12_NoCascadeOnParentRejected ==
    [][(/\ last'.op = "DELETE" /\ ~last'.cascade
        /\ last'.id \in DOMAIN pages
        /\ ChildrenOf(pages, last'.id) # {})
       => (/\ last'.status = 400
           /\ pages' = pages
           /\ content_blocks' = content_blocks
           /\ comments' = comments
           /\ page_files' = page_files)]_vars

\* -------------------------------------------------------------- SpecDeep
\* DELETE /api/pages statement by statement, on a chain of MaxChain nested
\* pages (page i+1 created by POST {parentId: i}).  One request at a time.
ChainPages(n) ==
    [i \in 1..n |->
        [workspace_id |-> "W1", section_id |-> "S1", subsection_id |-> Null,
         parent_id |-> IF i = 1 THEN NULL ELSE i - 1,
         page_order |-> NextOrder(-1)]]

InitDeep ==
    /\ maxOrderAsString \in BOOLEAN
    /\ mirror = initialState
    /\ pool = initialPool
    /\ pages = ChainPages(MaxChain)
    /\ content_blocks = <<>>
    /\ comments = <<>>
    /\ page_files = <<>>
    /\ last = Response("none", NULL, 0, "")
    /\ txn = [t \in TxnIds |-> [pc |-> "idle"]]

\* DELETE up to the page loop: the existence check, the list of ids, the
\* three DELETEs of dependents, sortPagesByDepth.
DeleteBegin(t, pageId, deleteChildren) ==
    LET req == [Response("DELETE", pageId, 0, "") EXCEPT !.cascade = deleteChildren]
    IN
    /\ \A u \in TxnIds : txn[u].pc = "idle"
    /\ IF pageId \notin DOMAIN pages
       THEN /\ last' = [req EXCEPT !.status = 404, !.error = "Page not found"]
            /\ UNCHANGED <<pages, content_blocks, comments, page_files, txn>>
       ELSE LET allPageIds ==
                    IF deleteChildren THEN getAllChildPageIdsRecursive(pages, pageId)
                    ELSE <<pageId>>
                db1 == DeleteDependents(Db, SeqToSet(allPageIds))
            IN /\ content_blocks' = db1.content_blocks
               /\ comments' = db1.comments
               /\ page_files' = db1.page_files
               /\ txn' = [txn EXCEPT ![t] =
                              [pc |-> "deleting",
                               res |-> [req EXCEPT !.deletedIds = allPageIds],
                               todo |-> sortPagesByDepth(pages, allPageIds)]]
               /\ UNCHANGED <<pages, last>>
    /\ UNCHANGED <<maxOrderAsString, mirror, pool>>

\* one pass of the page loop: DELETE FROM pages WHERE id = ?
DeleteStep(t) ==
    /\ txn[t].pc = "deleting"
    /\ txn[t].todo # <<>>
    /\ LET db1 == DeletePageRow(Db, Head(txn[t].todo))
       IN /\ pages' = db1.pages
          /\ content_blocks' = db1.content_blocks
          /\ comments' = db1.comments
          /\ page_files' = db1.page_files
    /\ txn' = [txn EXCEPT ![t].todo = Tail(@)]
    /\ UNCHANGED <<last, maxOrderAsString, mirror, pool>>

\* commit and the response
DeleteEnd(t) ==
    /\ txn[t].pc = "deleting"
    /\ txn[t].todo = <<>>
    /\ last' = [txn[t].res EXCEPT !.status = 200]
    /\ txn' = [txn EXCEPT ![t] = [pc |-> "idle"]]
    /\ UNCHANGED <<pages, content_blocks, comments, page_files, maxOrderAsString, mirror, pool>>

\* the delete is sent while the chain is whole
DeepDeleteBegin ==
    \E pageId \in DOMAIN pages, deleteChildren \in BOOLEAN :
        /\ Cardinality(DOMAIN pages) = MaxChain
        /\ DeleteBegin(1, pageId, deleteChildren)

DeepDeleteStep == \E t \in TxnIds : DeleteStep(t)

DeepDeleteEnd == \E t \in TxnIds : DeleteEnd(t)

NextDeep ==
    \/ DeepDeleteBegin
    \/ DeepDeleteStep
    \/ DeepDeleteEnd

SpecDeep == InitDeep /\ [][NextDeep]_vars

\* C13: during a cascading delete no page row is removed while a page row
\* that still exists names it as parent.
C13_DeepestFirst ==
    [][\A t \in TxnIds :
          (/\ txn[t].pc = "deleting" /\ txn'[t].pc = "deleting"
           /\ txn[t].res.cascade
           /\ txn'[t].todo # txn[t].todo)
          => ChildrenOf(pages, Head(txn[t].todo)) = {}]_vars

\* --------------------------------------------------------------- SpecBfs
\* getAllChildPageIdsRecursive, one pass of its while loop per step, on
\* every pages table over PageIds, the ones whose parent links hold a cycle
\* included (overlapping moves leave such tables).  `expanded` lists the
\* ids the SELECT ... WHERE parent_id = ? was run for.
LinkedPages(D, parent) ==
    [i \in D |->
        [workspace_id |-> "W1", section_id |-> "S1", subsection_id |-> Null,
         parent_id |-> parent[i], page_order |-> NextOrder(-1)]]

\* variant: neither processed.has(currentId) nor allIds.includes(childId)
BfsIter_NoGuards(pg, st) ==
    LET currentId == Head(st.toProcess)
        childRows == SetToSeq(ChildrenOf(pg, currentId))
    IN [allIds |-> st.allIds \o childRows,
        toProcess |-> Tail(st.toProcess) \o childRows,
        processed |-> st.processed \cup {currentId},
        expanded |-> Append(st.expanded, currentId)]

\* one pass of the while loop
BfsIter(pg, st) ==
    LET currentId == Head(st.toProcess)
        rest == Tail(st.toProcess)
    IN IF currentId \in st.processed
       THEN [st EXCEPT !.toProcess = rest]
       ELSE LET childRows == SetToSeq(ChildrenOf(pg, currentId))
                new == SelectSeq(childRows, LAMBDA c : c \notin SeqToSet(st.allIds))
            IN [allIds |-> st.allIds \o new,
                toProcess |-> rest \o new,
                processed |-> st.processed \cup {currentId},
                expanded |-> Append(st.expanded, currentId)]

InitBfs ==
    /\ maxOrderAsString \in BOOLEAN
    /\ mirror = initialState
    /\ pool = initialPool
    /\ \E D \in SUBSET PageIds :
         \E parent \in [D -> {NULL} \cup D] :
            /\ \A i \in D : parent[i] # i
            /\ pages = LinkedPages(D, parent)
    /\ content_blocks = <<>>
    /\ comments = <<>>
    /\ page_files = <<>>
    /\ last = Response("none", NULL, 0, "")
    /\ \E parentId \in PageIds :
         txn = [t \in TxnIds |->
                   IF t = 1
                   THEN [pc |-> "bfs", parentId |-> parentId,
                         st |-> [allIds |-> <<parentId>>, toProcess |-> <<parentId>>,
                                 processed |-> {}, expanded |-> <<>>]]
                   ELSE [pc |-> "idle"]]

BfsStep ==
    /\ txn[1].pc = "bfs"
    /\ txn[1].st.toProcess # <<>>
    /\ txn' = [txn EXCEPT ![1].st = BfsIter(pages, @)]
    /\ UNCHANGED <<pages, content_blocks, comments, page_files, last, maxOrderAsString, mirror, pool>>

\* return allIds
BfsReturn ==
    /\ txn[1].pc = "bfs"
    /\ txn[1].st.toProcess = <<>>
    /\ txn' = [txn EXCEPT ![1].pc = "returned"]
    /\ UNCHANGED <<pages, content_blocks, comments, page_files, last, maxOrderAsString, mirror, pool>>

NextBfs ==
    \/ BfsStep
    \/ BfsReturn

SpecBfs == InitBfs /\ [][NextBfs]_vars /\ WF_vars(NextBfs)

BfsExpandsOnce ==
    txn[1].pc \in {"bfs", "returned"} =>
        \A i, j \in 1..Len(txn[1].st.expanded) :
            txn[1].st.expanded[i] = txn[1].st.expanded[j] => i = j

BfsReturned == txn[1].pc = "returned"

HasCycle(pg) == \E p \in DOMAIN pg : IsAncestor(pg, p, p)

\* C14: the enumeration of descendants returns on every finite pages table,
\* with or without a cycle in its parent links, and runs its query for each
\* page at most once.
C14_BfsTerminates == []BfsExpandsOnce /\ <>BfsReturned

\* C14 witness: the enumeration has returned on a table with a cycle, after
\* expanding every page on the cycle.
C14_Witness ==
    /\ BfsReturned
    /\ HasCycle(pages)
    /\ IsAncestor(pages, txn[1].parentId, txn[1].parentId)
    /\ Len(txn[1].st.expanded) >= 2
    /\ txn[1].st.allIds = getAllChildPageIdsRecursive(pages, txn[1].parentId)

\* C15: a delete whose depth computation ran over the ceiling of 50 hops
\* for one of the pages it collected is answered with an error; it never
\* goes on to the page loop with the capped depth as if it were the depth.
C15_CeilingReported ==
    [][\A t \in TxnIds :
          (txn[t].pc = "idle" /\ txn'[t].pc = "deleting")
          => \A p \in SeqToSet(txn'[t].todo) : getPageDepth(pages, p) <= DepthCeiling]_vars

\* ------------------------------------------------------------ SpecCreate
\* Creates with every combination of workspace, section, subsection and
\* parent, existing or not ("W9", "S9", "Sub9" and the page ids without row
\* name nothing); at most MaxPagesSmall pages.
CreateAny ==
    \E workspaceId \in {Undefined, "W1", "W9"},
       sectionId \in {Undefined, "S1", "S2", "S9"},
       subsectionId \in {Undefined, "Sub2", "Sub9"},
       parentId \in ParentInputs :
        /\ Cardinality(DOMAIN pages) < MaxPagesSmall
        /\ POST(workspaceId, sectionId, subsectionId, parentId, FALSE, 0)

NextCreate ==
    \/ CreateAny
    \/ TreeDelete

SpecCreate == Init /\ [][NextCreate]_vars

\* the request names a parent page, a section or a subsection without row
NamesAbsent(req, pg) ==
    \/ req.parentId # NULL /\ req.parentId \notin DOMAIN pg
    \/ req.sectionId # Undefined /\ req.sectionId \notin Sections
    \/ req.subsectionId # Undefined /\ req.subsectionId \notin Subsections

\* a root-level create with no section
RootWithoutSection(req) == req.parentId = NULL /\ req.sectionId = Undefined

MoveDeleteCreate ==
    \E parentId \in ParentInputs :
        /\ \A t \in TxnIds : txn[t].pc = "idle"
        /\ Cardinality(DOMAIN pages) < MaxPagesSmall
        /\ POST("W1", "S1", Undefined, parentId, FALSE, 0)

MoveDeleteBegin ==
    \E t \in TxnIds, id \in DOMAIN pages, parentId \in ParentInputs :
        PutBegin(t, id, parentId)

NextMoveDelete ==
    \/ MoveDeleteCreate
    \/ MoveDeleteBegin
    \/ ConcMoveCommit
    \/ TreeDelete

SpecMoveDelete == Init /\ [][NextMoveDelete]_vars

\* every parent_id names a row
NoDanglingParent(pg) ==
    \A p \in DOMAIN pg : pg[p].parent_id # NULL => pg[p].parent_id \in DOMAIN pg

\* C17: a move whose new parent has no row when the move commits is
\* answered not-found (404) or conflict (409) and changes no page row, and
\* no committed state holds a parent_id without row.
C17_MoveToAbsentParentFails ==
    [][/\ NoDanglingParent(pages')
       /\ (/\ last'.op = "PUT" /\ last' # last
           /\ last'.hasParent /\ last'.parentId # NULL
           /\ last'.parentId \notin DOMAIN pages)
          => (last'.status \in {404, 409} /\ pages' = pages)]_vars

\* ------------------------------------------------------------ SpecBlocks
\* The /api/blocks handlers, one request at a time, on the blocks of at
\* most MaxPagesSmall pages: creates with and without order and insertAfter,
\* updates of content and order, deletes.
BlocksCreatePage ==
    /\ Cardinality(DOMAIN pages) < MaxPagesSmall
    /\ POST("W1", "S1", Undefined, NULL, FALSE, 0)

BlockCreate ==
    \E pageId \in DOMAIN pages, hasOrder \in BOOLEAN, order \in 0..1,
       insertAfter \in {NULL} \cup BlockIds :
        /\ (~hasOrder => order = 0)
        /\ POST_BLOCK(pageId, hasOrder, order, insertAfter)

BlockUpdate ==
    \E id \in BlockIds, hasContent \in BOOLEAN, hasOrder \in BOOLEAN, order \in 0..1 :
        /\ (~hasOrder => order = 0)
        /\ PUT_BLOCK(id, hasContent, hasOrder, order)

BlockDelete == \E blockId \in BlockIds : DELETE_BLOCK(blockId)

NextBlocks ==
    \/ BlocksCreatePage
    \/ BlockCreate
    \/ BlockUpdate
    \/ BlockDelete

SpecBlocks == Init /\ [][NextBlocks]_vars

BlocksOf(blocks, pageId) == {b \in DOMAIN blocks : blocks[b].page_id = pageId}

BlockOrders(blocks, pageId) == {blocks[b].block_order : b \in BlocksOf(blocks, pageId)}

BlocksContiguous(blocks, pageId) ==
    /\ BlockOrders(blocks, pageId) = 0..(Cardinality(BlocksOf(blocks, pageId)) - 1)
    /\ \A b1, b2 \in BlocksOf(blocks, pageId) :
           blocks[b1].block_order = blocks[b2].block_order => b1 = b2

\* C18: after every successful block create, update or delete the orders of
\* the blocks of that page are exactly 0..n-1.
C18_BlockOrdersContiguous ==
    (last.op \in {"POST_BLOCK", "PUT_BLOCK", "DELETE_BLOCK"} /\ Succeeded)
        => BlocksContiguous(content_blocks, last.parentId)

\* --------------------------------------------------------- SpecBlockConc
\* POST /api/blocks with insertAfter, statement by statement.  The handler
\* opens no transaction: its SELECT of the named block's order, its UPDATE
\* of the later blocks and its INSERT are three autocommitted statements on
\* a pool connection, and the statements of another request may run between
\* them.  seen is what content_blocks held when the request read the order
\* of the block it inserts after.
BlockPostRead(t, pageId, insertAfter) ==
    /\ txn[t].pc = "idle"
    /\ pageId \in DOMAIN pages
    /\ insertAfter \in DOMAIN content_blocks
    /\ txn' = [txn EXCEPT ![t] =
                  [pc |-> "read", pageId |-> pageId, insertAfter |-> insertAfter,
                   blockOrder |-> content_blocks[insertAfter].block_order + 1,
                   seen |-> content_blocks]]
    /\ UNCHANGED <<pages, content_blocks, comments, page_files, last, maxOrderAsString, mirror, pool>>

BlockPostShift(t) ==
    /\ txn[t].pc = "read"
    /\ content_blocks' = ShiftFrom(content_blocks, txn[t].pageId, txn[t].blockOrder)
    /\ \A b \in DOMAIN content_blocks' : content_blocks'[b].block_order <= MaxBlockOrder
    /\ txn' = [txn EXCEPT ![t].pc = "shifted"]
    /\ UNCHANGED <<pages, comments, page_files, last, maxOrderAsString, mirror, pool>>

BlockPostInsert(t) ==
    /\ txn[t].pc = "shifted"
    /\ BlockIds \ DOMAIN content_blocks # {}
    /\ LET blockId == Min(BlockIds \ DOMAIN content_blocks)
       IN /\ content_blocks' =
                 (blockId :> [page_id |-> txn[t].pageId,
                              block_order |-> txn[t].blockOrder]) @@ content_blocks
          /\ last' = [Response("POST_BLOCK", blockId, 201, "") EXCEPT
                         !.parentId = txn[t].pageId]
    /\ txn' = [txn EXCEPT ![t] = [pc |-> "idle"]]
    /\ UNCHANGED <<pages, comments, page_files, maxOrderAsString, mirror, pool>>

BlockConcAppend ==
    \E pageId \in DOMAIN pages : POST_BLOCK(pageId, FALSE, 0, NULL)

BlockConcRead ==
    \E t \in TxnIds, pageId \in DOMAIN pages, insertAfter \in DOMAIN content_blocks :
        BlockPostRead(t, pageId, insertAfter)

BlockConcShift == \E t \in TxnIds : BlockPostShift(t)

BlockConcInsert == \E t \in TxnIds : BlockPostInsert(t)

NextBlockConc ==
    \/ BlocksCreatePage
    \/ BlockConcAppend
    \/ BlockConcRead
    \/ BlockConcShift
    \/ BlockConcInsert

SpecBlockConc == Init /\ [][NextBlockConc]_vars

\* C19: a create with insertAfter X on X's page gives the new block the
\* order X had plus one, and every block of the page whose order was at least
\* that is higher by exactly one when the create completes, the others as
\* they were: the create takes effect as one step on what it read.
C19_InsertAfterAtomic ==
    [][\A t \in TxnIds :
         (/\ txn[t].pc = "shifted" /\ txn'[t].pc = "idle"
          /\ txn[t].seen[txn[t].insertAfter].page_id = txn[t].pageId)
         => LET r == txn[t]
                newOrder == r.seen[r.insertAfter].block_order + 1
            IN /\ content_blocks'[last'.id].block_order = newOrder
               /\ \A b \in BlocksOf(r.seen, r.pageId) :
                      /\ b \in DOMAIN content_blocks'
                      /\ content_blocks'[b].block_order =
                             IF r.seen[b].block_order >= newOrder
                             THEN r.seen[b].block_order + 1
                             ELSE r.seen[b].block_order]_vars

\* C20: a successful delete of a block of order k removes that block, lowers
\* by one the order of every remaining block of the same page whose order was
\* above k, and leaves the order of every other block as it was.
C20_BlockDeleteClosesGap ==
    [][(/\ last'.op = "DELETE_BLOCK" /\ last'.status = 200
        /\ last'.id \in DOMAIN content_blocks
        /\ last'.id \notin DOMAIN content_blocks')
       => LET pageId == content_blocks[last'.id].page_id
              k == content_blocks[last'.id].block_order
          IN /\ DOMAIN content_blocks' = DOMAIN content_blocks \ {last'.id}
             /\ \A b \in DOMAIN content_blocks' :
                    /\ content_blocks'[b].page_id = content_blocks[b].page_id
                    /\ content_blocks'[b].block_order =
                           IF content_blocks[b].page_id = pageId
                              /\ content_blocks[b].block_order > k
                           THEN content_blocks[b].block_order - 1
                           ELSE content_blocks[b].block_order]_vars

\* a delete in the middle of a page: a block before the deleted one and a
\* block at or after its place remain
C20_Witness ==
    /\ last.op = "DELETE_BLOCK" /\ last.status = 200
    /\ last.id \notin DOMAIN content_blocks
    /\ \E b1, b2 \in BlocksOf(content_blocks, last.parentId) :
           /\ content_blocks[b1].block_order < last.order
           /\ content_blocks[b2].block_order >= last.order
           /\ content_blocks[b2].block_order = content_blocks[b1].block_order + 1

\* ----------------------------------------------------------- SpecReorder
\* PUT /api/pages/reorder.  The client calls it (pagesAPI.reorderPages) with
\* the key of a sibling group and the page ids in their new order; its
\* handler is modelled from the specification's Reorder operation.
\* The sibling group of a key, as POST's order calculation selects it.
SiblingGroup(pg, parentId, sectionId, subsectionId) ==
    IF parentId # NULL THEN SiblingsByParent(pg, parentId)
    ELSE IF Truthy(subsectionId) THEN SiblingsBySubsection(pg, subsectionId)
    ELSE SiblingsBySection(pg, sectionId)

\* variant: a list that leaves siblings out is accepted
ReorderOutcome_SubsetOk(parentId, sectionId, subsectionId, pageIds) ==
    LET req == [Response("REORDER", NULL, 0, "") EXCEPT
                    !.parentId = parentId, !.hasParent = (parentId # NULL),
                    !.sectionId = sectionId, !.subsectionId = subsectionId,
                    !.pageIds = pageIds]
        siblings == SiblingGroup(pages, parentId, sectionId, subsectionId)
    IN IF SeqToSet(pageIds) \subseteq siblings
       THEN [db |-> [Db EXCEPT !.pages =
                        [p \in DOMAIN pages |->
                            IF p \in SeqToSet(pageIds)
                            THEN [pages[p] EXCEPT !.page_order =
                                     (CHOOSE i \in 1..Len(pageIds) : pageIds[i] = p) - 1]
                            ELSE pages[p]]],
             res |-> [req EXCEPT !.status = 200]]
       ELSE [db |-> Db, res |-> [req EXCEPT !.status = 400, !.error = "ValidationError"]]

\* Reorder(siblingGroupKey, orderedIdList): the list must be exactly the
\* current sibling set; then order = index for each id, in one transaction.
ReorderOutcome(parentId, sectionId, subsectionId, pageIds) ==
    LET req == [Response("REORDER", NULL, 0, "") EXCEPT
                    !.parentId = parentId, !.hasParent = (parentId # NULL),
                    !.sectionId = sectionId, !.subsectionId = subsectionId,
                    !.pageIds = pageIds]
        siblings == SiblingGroup(pages, parentId, sectionId, subsectionId)
        exact == /\ SeqToSet(pageIds) = siblings
                 /\ Len(pageIds) = Cardinality(siblings)
    IN IF exact
       THEN [db |-> [Db EXCEPT !.pages =
                        [p \in DOMAIN pages |->
                            IF p \in siblings
                            THEN [pages[p] EXCEPT !.page_order =
                                     (CHOOSE i \in 1..Len(pageIds) : pageIds[i] = p) - 1]
                            ELSE pages[p]]],
             res |-> [req EXCEPT !.status = 200]]
       ELSE [db |-> Db, res |-> [req EXCEPT !.status = 400, !.error = "ValidationError"]]

REORDER(parentId, sectionId, subsectionId, pageIds) ==
    LET out == ReorderOutcome(parentId, sectionId, subsectionId, pageIds)
    IN /\ pages' = out.db.pages
       /\ last' = out.res
       /\ UNCHANGED <<content_blocks, comments, page_files, txn, maxOrderAsString, mirror, pool>>

\* the id lists a client sends: any ids, in any order, repeated or not
IdLists == UNION {[1..n -> PageIds] : n \in 0..MaxListLen}

ReorderCreate ==
    \E parentId \in ParentInputs :
        POST("W1", "S1", Undefined, parentId, FALSE, 0)

ReorderPages ==
    \E parentId \in ParentInputs, sectionId \in {"S1"}, pageIds \in IdLists :
        REORDER(parentId, IF parentId = NULL THEN sectionId ELSE Undefined,
                Undefined, pageIds)

NextReorder ==
    \/ ReorderCreate
    \/ ReorderPages

SpecReorder == Init /\ [][NextReorder]_vars

\* the list names every page of the set once and nothing else
ExactlyTheSet(ids, S) ==
    /\ SeqToSet(ids) = S
    /\ \A i, j \in 1..Len(ids) : ids[i] = ids[j] => i = j

\* C21: a reorder whose list is exactly the current sibling set succeeds and
\* gives each listed page its (0-based) index as order, leaving every other
\* page as it was; any other list is refused with a validation error and
\* changes nothing.
C21_ReorderExactSet ==
    [][last'.op = "REORDER" =>
         LET siblings == SiblingGroup(pages, last'.parentId, last'.sectionId,
                                      last'.subsectionId)
             ids == last'.pageIds
         IN IF ExactlyTheSet(ids, siblings)
            THEN /\ last'.status = 200
                 /\ DOMAIN pages' = DOMAIN pages
                 /\ \A i \in 1..Len(ids) :
                        pages'[ids[i]] = [pages[ids[i]] EXCEPT !.page_order = i - 1]
                 /\ \A p \in DOMAIN pages \ siblings : pages'[p] = pages[p]
            ELSE /\ last'.status = 400
                 /\ pages' = pages]_vars

\* a reorder of two or more siblings was accepted and put a later-created
\* page first
C21_Witness ==
    /\ last.op = "REORDER" /\ last.status = 200
    /\ Len(last.pageIds) >= 2
    /\ last.pageIds[1] > last.pageIds[2]
    /\ pages[last.pageIds[1]].page_order = 0

\* ============================================================ the client
\* The workspace context of the client (context reducer and operations):
\* state.workspace is the tree the client shows, a copy of what the server
\* sent.  A workspace is modelled by its page lists: section.pages under the
\* section's id, subsection.pages under the subsection's id.  A page item is
\* [id, parentId, children]; the other fields of PageItem play no part.
DefaultWorkspace == "W1"

\* the page lists of the default workspace, in the order workspace.sections
\* and section.subsections are walked: S1.pages, S2.pages, S2/Sub2.pages
MirrorLists == <<"S1", "S2", "Sub2">>

ListKeys == SeqToSet(MirrorLists)

PageItem(id, parentId) == [id |-> id, parentId |-> parentId, children |-> <<>>]

IdsOf(pageList) == {pageList[i].id : i \in 1..Len(pageList)}

\* getAllPages: every list, each page followed by its children, recursively
RECURSIVE addPagesRecursively(_)
addPagesRecursively(pageList) ==
    IF pageList = <<>> THEN <<>>
    ELSE <<Head(pageList)>> \o addPagesRecursively(Head(pageList).children)
                            \o addPagesRecursively(Tail(pageList))

getAllPages(workspace) ==
    IF workspace = NoWorkspace THEN <<>>
    ELSE addPagesRecursively(workspace["S1"]) \o addPagesRecursively(workspace["S2"])
         \o addPagesRecursively(workspace["Sub2"])

\* allPages.find(page => page.id === id): the index of the first, 0 if none
FindIndex(allPages, id) ==
    IF \E i \in 1..Len(allPages) : allPages[i].id = id
    THEN Min({i \in 1..Len(allPages) : allPages[i].id = id})
    ELSE 0

\* getAllChildPageIds: the ids in the children arrays below the page
getAllChildPageIds(parentId, allPages) ==
    LET at == FindIndex(allPages, parentId)
    IN IF at = 0 THEN <<>>
       ELSE LET below == addPagesRecursively(allPages[at].children)
            IN [i \in 1..Len(below) |-> below[i].id]

validatePageHierarchy(pageId, newParentId, allPages) ==
    IF newParentId = NULL THEN TRUE
    ELSE IF pageId = newParentId THEN FALSE
    ELSE newParentId \notin SeqToSet(getAllChildPageIds(pageId, allPages))

\* nestedPages.canMovePage
canMovePage(state, pageId, newParentId) ==
    validatePageHierarchy(pageId, newParentId, getAllPages(state.workspace))

\* findPageLocation: the first list that holds the page at its top level
\* ("none": null)
findPageLocation(workspace, pageId) ==
    LET hits == {i \in 1..Len(MirrorLists) : pageId \in IdsOf(workspace[MirrorLists[i]])}
    IN IF hits = {} THEN "none" ELSE MirrorLists[Min(hits)]

LocationSection(key) == IF key \in Subsections THEN SubsectionSection[key] ELSE key

LocationSubsection(key) == IF key \in Subsections THEN key ELSE Undefined

\* insertPageInLocation: appended to the subsection's list when a
\* subsectionId is given and the section has that subsection, to the
\* section's list when none is given; otherwise nothing is inserted
insertPageInLocation(workspace, page, sectionId, subsectionId) ==
    [k \in ListKeys |->
        IF \/ (~Truthy(subsectionId) /\ k = sectionId)
           \/ (Truthy(subsectionId) /\ k = subsectionId /\ k \in Subsections
               /\ SubsectionSection[k] = sectionId)
        THEN Append(workspace[k], page)
        ELSE workspace[k]]

\* removePageFromLocation: filtered out of every section and subsection list
removePageFromLocation(workspace, pageId) ==
    [k \in ListKeys |-> SelectSeq(workspace[k], LAMBDA page : page.id # pageId)]

\* ------------------------------------------------------- workspaceReducer
SET_ERROR(state, payload) == [state EXCEPT !.error = payload]

SET_WORKSPACE(state, payload) == [state EXCEPT !.workspace = payload, !.error = Null]

SET_CURRENT_PAGE(state, payload) == [state EXCEPT !.currentPage = payload]

UPDATE_PAGE(state, payload) ==
    IF state.workspace = NoWorkspace THEN state
    ELSE [state EXCEPT !.workspace =
             [k \in ListKeys |->
                 [i \in 1..Len(state.workspace[k]) |->
                     IF state.workspace[k][i].id = payload.id THEN payload
                     ELSE state.workspace[k][i]]]]

ADD_PAGE(state, sectionId, subsectionId, page) ==
    IF state.workspace = NoWorkspace THEN state
    ELSE [state EXCEPT !.workspace =
             insertPageInLocation(state.workspace, page, sectionId, subsectionId)]

DELETE_PAGE(state, pageId) ==
    IF state.workspace = NoWorkspace THEN state
    ELSE
    LET allPages == getAllPages(state.workspace)
        pageIdsToDelete == {pageId} \cup SeqToSet(getAllChildPageIds(pageId, allPages))
    IN [state EXCEPT
           !.workspace =
               [k \in ListKeys |->
                   SelectSeq(state.workspace[k],
                             LAMBDA page : page.id \notin pageIdsToDelete)],
           !.currentPage = IF state.currentPage \in pageIdsToDelete THEN NULL
                           ELSE state.currentPage]

MOVE_PAGE(state, pageId, newParentId, newSectionId, newSubsectionId) ==
    IF state.workspace = NoWorkspace THEN state
    ELSE
    LET allPagesForMove == getAllPages(state.workspace)
        at == FindIndex(allPagesForMove, pageId)
    IN
    IF at = 0 THEN state
    ELSE IF ~validatePageHierarchy(pageId, newParentId, allPagesForMove) THEN state
    ELSE
    LET updatedPage == [allPagesForMove[at] EXCEPT !.parentId = newParentId]
        workspaceAfterRemoval == removePageFromLocation(state.workspace, pageId)
        parentLocation ==
            IF ~Truthy(newSectionId) /\ newParentId # NULL
            THEN findPageLocation(workspaceAfterRemoval, newParentId)
            ELSE "none"
        section1 == IF parentLocation # "none" THEN LocationSection(parentLocation)
                    ELSE newSectionId
        subsection1 == IF parentLocation # "none" THEN LocationSubsection(parentLocation)
                       ELSE newSubsectionId
        originalLocation ==
            IF ~Truthy(section1) THEN findPageLocation(state.workspace, pageId)
            ELSE "none"
        targetSectionId == IF originalLocation # "none"
                           THEN LocationSection(originalLocation) ELSE section1
        targetSubsectionId == IF originalLocation # "none"
                              THEN LocationSubsection(originalLocation) ELSE subsection1
    IN [state EXCEPT !.workspace =
           IF Truthy(targetSectionId)
           THEN insertPageInLocation(workspaceAfterRemoval, updatedPage,
                                     targetSectionId, targetSubsectionId)
           ELSE workspaceAfterRemoval]

\* ------------------------------------------- GET /api/workspaces (load)
\* buildWorkspaceData: section.pages are the rows with that section_id and no
\* subsection, subsection.pages the rows with that subsection_id; the rows
\* are not filtered by parent_id and are sent without parentId and without
\* children.  (Rows are listed by id here; created_at is not modelled and
\* nothing reads the position of a page within its list.)
buildWorkspaceData(pg) ==
    [k \in ListKeys |->
        LET rows == IF k \in Subsections
                    THEN {p \in DOMAIN pg : pg[p].subsection_id = k}
                    ELSE {p \in DOMAIN pg : pg[p].section_id = k
                                            /\ pg[p].subsection_id = Null}
            ids == SetToSeq(rows)
        IN <<>> \o [i \in 1..Len(ids) |-> PageItem(ids[i], NULL)]]

\* loadWorkspace: fetch, then SET_WORKSPACE
loadWorkspace ==
    /\ mirror' = SET_WORKSPACE(SET_ERROR(mirror, Null), buildWorkspaceData(pages))
    /\ UNCHANGED <<pages, content_blocks, comments, page_files, last, txn, maxOrderAsString, pool>>

\* ------------------------------------------------ the client's operations
\* Each operation sends one request and dispatches after the response; the
\* request is served in the same step.
\* createPage: POST /api/pages, then ADD_PAGE with the section and subsection
\* the caller named, and SET_CURRENT_PAGE.
createPage(sectionId, subsectionId, parentPageId) ==
    LET out == PostOutcome(DefaultWorkspace, sectionId, subsectionId, parentPageId,
                           FALSE, 0)
        id == out.res.id
        state0 == SET_ERROR(mirror, Null)
    IN /\ mirror.workspace # NoWorkspace
       /\ PageIds \ DOMAIN pages # {}
       /\ out.res.status = 201 =>
              out.db.pages[id].page_order \in -MaxNegOrder..MaxOrder
       /\ pages' = out.db.pages
       /\ last' = out.res
       /\ mirror' =
              IF out.res.status = 201
              THEN SET_CURRENT_PAGE(
                       ADD_PAGE(state0, sectionId, subsectionId,
                                PageItem(id, out.db.pages[id].parent_id)),
                       id)
              ELSE SET_ERROR(state0, out.res.error)
       /\ UNCHANGED <<content_blocks, comments, page_files, txn, maxOrderAsString, pool>>

\* variant: DELETE_PAGE is dispatched before the response is looked at
deletePage_DispatchFirst(pageId) ==
    LET out == DeleteOutcome(pageId, TRUE)
        state1 == DELETE_PAGE(SET_ERROR(mirror, Null), pageId)
    IN /\ pages' = out.db.pages
       /\ content_blocks' = out.db.content_blocks
       /\ comments' = out.db.comments
       /\ page_files' = out.db.page_files
       /\ last' = out.res
       /\ mirror' =
              IF out.res.status = 200
              THEN IF mirror.currentPage = pageId
                   THEN SET_CURRENT_PAGE(state1, NULL) ELSE state1
              ELSE SET_ERROR(state1, out.res.error)
       /\ UNCHANGED <<txn, maxOrderAsString, pool>>

\* deletePage: DELETE /api/pages?id= (deleteChildren defaults to true), then
\* DELETE_PAGE, and SET_CURRENT_PAGE null if the page was the current one.
deletePage(pageId) ==
    LET out == DeleteOutcome(pageId, TRUE)
        state0 == SET_ERROR(mirror, Null)
        state1 == DELETE_PAGE(state0, pageId)
    IN /\ pages' = out.db.pages
       /\ content_blocks' = out.db.content_blocks
       /\ comments' = out.db.comments
       /\ page_files' = out.db.page_files
       /\ last' = out.res
       /\ mirror' =
              IF out.res.status = 200
              THEN IF mirror.currentPage = pageId
                   THEN SET_CURRENT_PAGE(state1, NULL) ELSE state1
              ELSE SET_ERROR(state0, out.res.error)
       /\ UNCHANGED <<txn, maxOrderAsString, pool>>

\* nestedPages.movePage: canMovePage, then PUT /api/pages with parentId (left
\* out of the JSON body when undefined) and the section and subsection when
\* truthy, then UPDATE_PAGE with the page of the response.
movePage(pageId, newParentId, newSectionId, newSubsectionId) ==
    IF ~canMovePage(mirror, pageId, newParentId)
    THEN /\ mirror' = SET_ERROR(mirror, "Cannot move page: would create circular reference")
         /\ UNCHANGED <<pages, content_blocks, comments, page_files, last, txn,
                        maxOrderAsString, pool>>
    ELSE
    LET plan == PutPlan(pages, pageId, FALSE, newParentId # NULL, newParentId,
                        IF Truthy(newSectionId) THEN newSectionId ELSE Undefined,
                        IF Truthy(newSubsectionId) THEN newSubsectionId ELSE Undefined,
                        FALSE, 0)
        out == IF plan.done THEN [pages |-> pages, res |-> plan.res]
               ELSE PutWrite(pages, plan)
    IN /\ pages' = out.pages
       /\ last' = out.res
       /\ mirror' =
              IF out.res.status = 200
              THEN UPDATE_PAGE(mirror, PageItem(pageId, out.pages[pageId].parent_id))
              ELSE SET_ERROR(mirror, out.res.error)
       /\ UNCHANGED <<content_blocks, comments, page_files, txn, maxOrderAsString, pool>>

\* ------------------------------------------------------------ SpecMirror
\* One client and the server: the client loads the workspace and creates,
\* moves and deletes pages, one operation after the other.
\* every id the client holds
MirrorIds(state) ==
    {state.currentPage} \cup
    {q.id : q \in SeqToSet(getAllPages(state.workspace))} \cup
    {q.parentId : q \in SeqToSet(getAllPages(state.workspace))}

\* A page id is a fresh UUID: a create waits while the id it would be given
\* is still held by the client from an earlier page.
MirrorCreate ==
    \E sectionId \in {"S1", "S2"}, subsectionId \in {Undefined, "Sub2"},
       parentPageId \in ParentInputs :
        /\ Cardinality(DOMAIN pages) < MaxPagesSmall
        /\ Min(PageIds \ DOMAIN pages) \notin MirrorIds(mirror)
        /\ createPage(sectionId, subsectionId, parentPageId)

MirrorDelete == \E pageId \in PageIds : deletePage(pageId)

MirrorMove ==
    \E pageId \in PageIds, newParentId \in ParentInputs,
       newSectionId \in {Undefined, "S2"}, newSubsectionId \in {Undefined} :
        movePage(pageId, newParentId, newSectionId, newSubsectionId)

NextMirror ==
    \/ loadWorkspace
    \/ MirrorCreate
    \/ MirrorDelete
    \/ MirrorMove

SpecMirror == Init /\ [][NextMirror]_vars

\* C22: when the server refuses or fails a create, move or delete, the
\* client's tree and current page are afterwards what they were before the
\* operation.
C22_FailureLeavesMirror ==
    [][(/\ last'.op \in {"POST", "PUT", "DELETE"}
        /\ last'.status \notin {200, 201}
        /\ mirror'.error # Null)
       => (/\ mirror'.workspace = mirror.workspace
           /\ mirror'.currentPage = mirror.currentPage)]_vars

\* a request was refused while the client showed pages
C22_Witness ==
    /\ last.op \in {"POST", "PUT", "DELETE"}
    /\ last.status \notin {200, 201}
    /\ mirror.error = last.error
    /\ getAllPages(mirror.workspace) # <<>>
    /\ mirror.currentPage # NULL

\* C23: the client's canMovePage refuses every move the server's
\* circular-reference check refuses, so no PUT the client sends is answered
\* with a circular-reference error.
C23_ClientNeverSendsCircularMove ==
    ~(last.op = "PUT" /\ last.error \in CircularErrors)

\* the pages the mirror's tree shows
TreeIds(state) == IdsOf(getAllPages(state.workspace))

\* where the store keeps a page: the subsection's list if it has a
\* subsection, else the section's
StoreList(row) == IF row.subsection_id # Null THEN row.subsection_id ELSE row.section_id

\* the places of a page id in the mirror's lists
MirrorPlaces(workspace, id) ==
    {<<k, i>> \in ListKeys \X (1..MaxPages + 1) :
        i <= Len(workspace[k]) /\ workspace[k][i].id = id}

\* the mirror shows exactly the pages of the store, each once, in the list of
\* its section or subsection and with its parent
MirrorAgrees(workspace, pg) ==
    /\ \A p \in DOMAIN pg :
           /\ Cardinality(MirrorPlaces(workspace, p)) = 1
           /\ \A pl \in MirrorPlaces(workspace, p) :
                  /\ pl[1] = StoreList(pg[p])
                  /\ workspace[pl[1]][pl[2]].parentId = pg[p].parent_id
    /\ \A k \in ListKeys : IdsOf(workspace[k]) \subseteq DOMAIN pg

\* C24: once the client has loaded the workspace, after every create, move
\* or delete that succeeded and was applied to the mirror, and after every
\* reload, the mirror places every page under the same parent page, section
\* and subsection as the store.
C24_MirrorAgreesWithStore ==
    (mirror.workspace # NoWorkspace /\ (last.status \in {200, 201} \/ mirror.error = Null))
        => MirrorAgrees(mirror.workspace, pages)

\* ---------------------------------------------------------------------
\* Breadcrumbs of the client
\* ---------------------------------------------------------------------

\* findPageInHierarchy: the first page of the list, searched in order and
\* each page's children before the next page, whose id is the target,
\* with the pages above it in the children arrays; <<>> when not found
RECURSIVE findPageInHierarchy(_, _, _)
findPageInHierarchy(pgs, targetId, currentHierarchy) ==
    IF pgs = <<>> THEN <<>>
    ELSE LET page == Head(pgs)
             newHierarchy == Append(currentHierarchy, page)
         IN IF page.id = targetId THEN newHierarchy
            ELSE LET below == IF Len(page.children) > 0
                              THEN findPageInHierarchy(page.children, targetId, newHierarchy)
                              ELSE <<>>
                 IN IF below # <<>> THEN below
                    ELSE findPageInHierarchy(Tail(pgs), targetId, currentHierarchy)

RECURSIVE HierarchyOver(_, _, _)
HierarchyOver(workspace, keys, pageId) ==
    IF keys = <<>> THEN <<>>
    ELSE findPageInHierarchy(workspace[Head(keys)], pageId, <<>>) \o HierarchyOver(workspace, Tail(keys), pageId)

\* getPageHierarchy: what the search finds in each section's and each
\* subsection's list, one after the other
getPageHierarchy(workspace, pageId) ==
    IF workspace = NoWorkspace THEN <<>> ELSE HierarchyOver(workspace, MirrorLists, pageId)

\* an entry of the breadcrumbs: the id of a section or subsection (name) or
\* of a page, tagged with its kind
Crumb(type, name, page) == [type |-> type, name |-> name, page |-> page]

getPageBreadcrumbs(state, pageId) ==
    IF state.workspace = NoWorkspace THEN <<>>
    ELSE LET pageLocation == findPageLocation(state.workspace, pageId)
             pageHierarchy == getPageHierarchy(state.workspace, pageId)
         IN IF pageLocation = "none" THEN <<>>
            ELSE <<Crumb("section", LocationSection(pageLocation), NULL)>>
                 \o (IF LocationSubsection(pageLocation) # Undefined
                     THEN <<Crumb("subsection", LocationSubsection(pageLocation), NULL)>> ELSE <<>>)
                 \o [i \in 1..Len(pageHierarchy) |-> Crumb("page", Null, pageHierarchy[i].id)]

\* the pages from the root down to a page, by the parent links of the store
RECURSIVE PathTo(_, _, _)
PathTo(pg, id, fuel) ==
    IF id = NULL \/ id \notin DOMAIN pg \/ fuel = 0 THEN <<>>
    ELSE Append(PathTo(pg, pg[id].parent_id, fuel - 1), id)

\* the trail the page should have: the section and subsection it is shown
\* in, every ancestor page from the root down, then the page
FullTrail(state, pg, pageId) ==
    LET pageLocation == findPageLocation(state.workspace, pageId)
        path == PathTo(pg, pageId, Cardinality(DOMAIN pg))
    IN <<Crumb("section", LocationSection(pageLocation), NULL)>>
       \o (IF LocationSubsection(pageLocation) # Undefined
           THEN <<Crumb("subsection", LocationSubsection(pageLocation), NULL)>> ELSE <<>>)
       \o [i \in 1..Len(path) |-> Crumb("page", Null, path[i])]

\* C25: for every page the client shows, nested pages included, the
\* breadcrumbs are the section, the subsection if any, each ancestor page
\* from the root down and the page itself, each tagged with its kind.
C25_BreadcrumbsFullTrail ==
    \A p \in TreeIds(mirror) \cap DOMAIN pages :
        getPageBreadcrumbs(mirror, p) = FullTrail(mirror, pages, p)

\* the pages the mirror shows at or below a set of pages, by the parentId
\* each page item carries
RECURSIVE MirrorBelow(_, _, _)
MirrorBelow(items, S, fuel) ==
    LET more == {x.id : x \in {y \in items : y.parentId \in S}}
    IN IF fuel = 0 \/ more \subseteq S THEN S
       ELSE MirrorBelow(items, S \cup more, fuel - 1)

MirrorSubtree(state, p) ==
    LET items == SeqToSet(getAllPages(state.workspace))
    IN MirrorBelow(items, {p}, Cardinality(items))

\* C28: when a delete of page p succeeded and DELETE_PAGE was applied, the
\* mirror shows neither p nor any page that was below p, and currentPage is
\* empty if it was p or a page below p.
C28_DeleteRemovesSubtree ==
    [][\A p \in PageIds :
          (/\ last'.op = "DELETE" /\ last'.status = 200 /\ last'.id = p
           /\ mirror.workspace # NoWorkspace
           /\ mirror' = DELETE_PAGE(SET_ERROR(mirror, Null), p))
          => (/\ TreeIds(mirror') \cap MirrorSubtree(mirror, p) = {}
              /\ (mirror.currentPage \in MirrorSubtree(mirror, p)
                    => mirror'.currentPage = NULL))]_vars

\* ---------------------------------------------------------------------
\* The MOVE_PAGE reducer on the mirrors the client can hold
\* ---------------------------------------------------------------------

\* dispatch of MOVE_PAGE with a payload of the action's type
MoveDispatch ==
    \E pageId \in PageIds, newParentId \in ParentInputs,
       newSectionId \in {Undefined, "S1", "S2"}, newSubsectionId \in {Undefined, "Sub2"} :
        /\ mirror' = MOVE_PAGE(mirror, pageId, newParentId, newSectionId, newSubsectionId)
        /\ UNCHANGED <<pages, content_blocks, comments, page_files, last, txn, maxOrderAsString, pool>>

NextMoveReducer == loadWorkspace \/ MirrorCreate \/ MoveDispatch

SpecMoveReducer == Init /\ [][NextMoveReducer]_vars

\* the reducer goes past its early returns: the page is in the mirror and
\* validatePageHierarchy accepts the new parent
MoveApplies(state, pageId, newParentId) ==
    /\ state.workspace # NoWorkspace
    /\ FindIndex(getAllPages(state.workspace), pageId) # 0
    /\ validatePageHierarchy(pageId, newParentId, getAllPages(state.workspace))

\* C29: a MOVE_PAGE the reducer applies keeps the set of pages: every page
\* id the mirror showed before is shown exactly once afterwards, and the
\* moved page carries its new parent.
C29_MovePreservesPages ==
    [][\A pageId \in PageIds, newParentId \in ParentInputs,
          newSectionId \in {Undefined, "S1", "S2"}, newSubsectionId \in {Undefined, "Sub2"} :
          (/\ MoveApplies(mirror, pageId, newParentId)
           /\ pages' = pages
           /\ mirror' = MOVE_PAGE(mirror, pageId, newParentId, newSectionId, newSubsectionId))
          => (/\ \A id \in TreeIds(mirror) :
                     Cardinality(MirrorPlaces(mirror'.workspace, id)) = 1
              /\ \A pl \in MirrorPlaces(mirror'.workspace, pageId) :
                     mirror'.workspace[pl[1]][pl[2]].parentId = newParentId)]_vars

\* ---------------------------------------------------------------------
\* Notifications of the block handlers
\* ---------------------------------------------------------------------

\* what happens to a notification: it is recorded; no user is to be told;
\* a statement inside createNotification's try fails; getConnection, which
\* createNotification calls before its try, fails
NotifyEnvs == {"ok", "noUsers", "insertFails", "noConnection"}

NotifyFailures == {"insertFails", "noConnection"}

\* createNotification: true when recorded, false when nobody is to be told or
\* when anything inside the try throws; a failing getConnection is thrown to
\* the caller
createNotification(env) ==
    [returned |-> env = "ok", threw |-> env = "noConnection"]

\* the tail of a block handler after its statements succeeded with okStatus:
\* await createNotification when the handler sends one, inside the handler's
\* try, whose catch answers 500
Notified(out, okStatus, sends, env) ==
    IF out.res.status # okStatus \/ ~sends THEN out
    ELSE IF createNotification(env).threw
         THEN [blocks |-> out.blocks,
               res |-> [out.res EXCEPT !.status = 500, !.error = "Internal server error",
                                       !.notify = env]]
         ELSE [blocks |-> out.blocks, res |-> [out.res EXCEPT !.notify = env]]

NotifyPost ==
    \E pageId \in DOMAIN pages, sends \in BOOLEAN, env \in NotifyEnvs :
        LET out == Notified(BlockPostOutcome(pageId, FALSE, 0, NULL), 201, sends, env)
        IN /\ BlockIds \ DOMAIN content_blocks # {}
           /\ content_blocks' = out.blocks
           /\ last' = out.res
           /\ UNCHANGED <<pages, comments, page_files, txn, maxOrderAsString, mirror, pool>>

NotifyPut ==
    \E id \in BlockIds, sends \in BOOLEAN, env \in NotifyEnvs :
        LET out == Notified(BlockPutOutcome(id, TRUE, FALSE, 0), 200, sends, env)
        IN /\ content_blocks' = out.blocks
           /\ last' = out.res
           /\ UNCHANGED <<pages, comments, page_files, txn, maxOrderAsString, mirror, pool>>

NotifyDelete ==
    \E blockId \in BlockIds, sends \in BOOLEAN, env \in NotifyEnvs :
        LET out == Notified(BlockDeleteOutcome(blockId), 200, sends, env)
        IN /\ content_blocks' = out.blocks
           /\ last' = out.res
           /\ UNCHANGED <<pages, comments, page_files, txn, maxOrderAsString, mirror, pool>>

NextNotify ==
    \/ BlocksCreatePage
    \/ NotifyPost
    \/ NotifyPut
    \/ NotifyDelete

SpecNotify == Init /\ [][NextNotify]_vars

\* C26: when the notification of a block create, update or delete fails,
\* the request still reports success and the change stays in the store: the
\* created block is there, the deleted block is gone.
C26_NotificationFailureHarmless ==
    [][(last'.op \in {"POST_BLOCK", "PUT_BLOCK", "DELETE_BLOCK"}
        /\ last'.notify \in NotifyFailures)
       => (/\ last'.status \in {200, 201}
           /\ (last'.op = "POST_BLOCK"
                 => Cardinality(DOMAIN content_blocks') = Cardinality(DOMAIN content_blocks) + 1)
           /\ (last'.op = "DELETE_BLOCK" => last'.id \notin DOMAIN content_blocks'))]_vars

\* ---------------------------------------------------------------------
\* Creates in flight together
\* ---------------------------------------------------------------------
\* POST /api/pages runs in a transaction whose SELECTs take no lock; POST
\* /api/blocks runs without a transaction.  In both, the order of the new
\* row is computed from a read and used by a later INSERT, and another
\* request can run between the two.

\* POST /api/pages up to the INSERT: the checks and the read of the highest
\* sibling order.  A refused create ends here.
PostRead(t, sectionId, parentId) ==
    LET out == PostOutcome("W1", sectionId, Undefined, parentId, FALSE, 0)
    IN /\ txn[t].pc = "idle"
       /\ PageIds \ DOMAIN pages # {}
       /\ IF out.res.status = 201
          THEN /\ txn' = [txn EXCEPT ![t] =
                             [pc |-> "postRead", row |-> out.db.pages[out.res.id],
                              res |-> out.res]]
               /\ UNCHANGED last
          ELSE /\ last' = out.res
               /\ UNCHANGED txn
       /\ UNCHANGED <<pages, content_blocks, comments, page_files, maxOrderAsString, mirror, pool>>

\* the INSERT with the order read before, and the commit
PostInsert(t) ==
    /\ txn[t].pc = "postRead"
    /\ PageIds \ DOMAIN pages # {}
    /\ txn[t].row.page_order \in -MaxNegOrder..MaxOrder
    /\ LET pageId == Min(PageIds \ DOMAIN pages)
       IN /\ pages' = (pageId :> txn[t].row) @@ pages
          /\ last' = [txn[t].res EXCEPT !.id = pageId]
    /\ txn' = [txn EXCEPT ![t] = [pc |-> "idle"]]
    /\ UNCHANGED <<content_blocks, comments, page_files, maxOrderAsString, mirror, pool>>

\* POST /api/blocks without order and insertAfter: SELECT MAX(block_order)
BlockAppendRead(t, pageId) ==
    LET mine == {b \in DOMAIN content_blocks : content_blocks[b].page_id = pageId}
    IN /\ txn[t].pc = "idle"
       /\ pageId \in DOMAIN pages
       /\ txn' = [txn EXCEPT ![t] =
                     [pc |-> "blockRead", pageId |-> pageId,
                      blockOrder |-> IF mine = {} THEN 0
                                     ELSE Max({content_blocks[b].block_order : b \in mine}) + 1]]
       /\ UNCHANGED <<pages, content_blocks, comments, page_files, last, maxOrderAsString, mirror, pool>>

\* the INSERT with the order read before
BlockAppendInsert(t) ==
    /\ txn[t].pc = "blockRead"
    /\ BlockIds \ DOMAIN content_blocks # {}
    /\ LET blockId == Min(BlockIds \ DOMAIN content_blocks)
       IN /\ content_blocks' =
                 (blockId :> [page_id |-> txn[t].pageId,
                              block_order |-> txn[t].blockOrder]) @@ content_blocks
          /\ last' = [Response("POST_BLOCK", blockId, 201, "") EXCEPT
                         !.parentId = txn[t].pageId]
    /\ txn' = [txn EXCEPT ![t] = [pc |-> "idle"]]
    /\ UNCHANGED <<pages, comments, page_files, maxOrderAsString, mirror, pool>>

NextCreateConc ==
    \/ \E t \in TxnIds, sectionId \in {"S1"}, parentId \in ParentInputs :
           /\ Cardinality(DOMAIN pages) < MaxPagesSmall
           /\ PostRead(t, sectionId, parentId)
    \/ \E t \in TxnIds : PostInsert(t)
    \/ \E t \in TxnIds, pageId \in DOMAIN pages : BlockAppendRead(t, pageId)
    \/ \E t \in TxnIds : BlockAppendInsert(t)

SpecCreateConc == Init /\ [][NextCreateConc]_vars

\* two creates of pages in flight for one sibling group: the same parent, or
\* both roots of the same section and subsection
SameSiblingGroup(r1, r2) ==
    /\ r1.parent_id = r2.parent_id
    /\ r1.parent_id = NULL =>
           /\ r1.section_id = r2.section_id
           /\ r1.subsection_id = r2.subsection_id

\* C27: two creates that are in flight together, each between its read of the
\* sibling orders and its INSERT, never hold the same order for two pages of
\* one sibling group or for two blocks of one page.
C27_ConcurrentCreatesDistinctOrder ==
    \A t, u \in TxnIds :
        /\ (t # u /\ txn[t].pc = "postRead" /\ txn[u].pc = "postRead"
             /\ SameSiblingGroup(txn[t].row, txn[u].row))
               => txn[t].row.page_order # txn[u].row.page_order
        /\ (t # u /\ txn[t].pc = "blockRead" /\ txn[u].pc = "blockRead"
             /\ txn[t].pageId = txn[u].pageId)
               => txn[t].blockOrder # txn[u].blockOrder

\* ---------------------------------------------------------------------
\* Connections of the pool
\* ---------------------------------------------------------------------
\* Which connections a request takes from the pool and which it gives back.
\* The statements a handler runs on its connection are modelled by the
\* handlers above; here a request is the sequence of its getConnection calls
\* and its return.  pool.getConnection hands out a connection while fewer
\* than connectionLimit are out and lets the caller wait otherwise
\* (waitForConnections, queueLimit 0).  No handler and no function of
\* notifications.ts calls release().

PoolKinds == {"DELETE", "POST_BLOCK"}

\* the getConnection calls of a request: the handler's own; for a block
\* create that notifies, also createNotification's and getWorkspaceMembers'
ConnectionsTaken(kind, sends) == IF kind = "POST_BLOCK" /\ sends THEN 3 ELSE 1

RequestArrives(t, kind, sends) ==
    /\ txn[t].pc = "idle"
    /\ txn' = [txn EXCEPT ![t] =
                  [pc |-> "getConnection", kind |-> kind,
                   need |-> ConnectionsTaken(kind, sends), held |-> 0]]
    /\ UNCHANGED <<pages, content_blocks, comments, page_files, last, maxOrderAsString, mirror, pool>>

\* getConnection: pool.getConnection() resolves
getConnection(t) ==
    /\ txn[t].pc = "getConnection"
    /\ txn[t].need > 0
    /\ pool.inUse < ConnectionLimit
    /\ pool' = [pool EXCEPT !.inUse = @ + 1]
    /\ txn' = [txn EXCEPT ![t].need = @ - 1, ![t].held = @ + 1]
    /\ UNCHANGED <<pages, content_blocks, comments, page_files, last, maxOrderAsString, mirror>>

\* getConnection: pool.getConnection() rejects on every retry; before the last
\* throw the pool is ended and a new one created, and the handler's catch
\* answers 500
getConnectionFails(t) ==
    /\ txn[t].pc = "getConnection"
    /\ txn[t].need > 0
    /\ pool' = initialPool
    /\ last' = Response(txn[t].kind, NULL, 500, "Internal server error")
    /\ txn' = [txn EXCEPT ![t] = [pc |-> "idle"]]
    /\ UNCHANGED <<pages, content_blocks, comments, page_files, maxOrderAsString, mirror>>

\* the handler returns its response; the connections it took stay out
RequestCompletes(t) ==
    /\ txn[t].pc = "getConnection"
    /\ txn[t].need = 0
    /\ last' = Response(txn[t].kind, NULL, IF txn[t].kind = "POST_BLOCK" THEN 201 ELSE 200, "")
    /\ txn' = [txn EXCEPT ![t] = [pc |-> "idle"]]
    /\ UNCHANGED <<pages, content_blocks, comments, page_files, maxOrderAsString, mirror, pool>>

NextPool ==
    \/ \E t \in TxnIds, kind \in PoolKinds, sends \in BOOLEAN : RequestArrives(t, kind, sends)
    \/ \E t \in TxnIds : getConnection(t)
    \/ \E t \in TxnIds : getConnectionFails(t)
    \/ \E t \in TxnIds : RequestCompletes(t)

SpecPool == Init /\ [][NextPool]_vars

\* the behaviours in which the pool never rejects a caller, and a request
\* that has arrived goes on whenever it can
SpecPoolLive ==
    /\ Init
    /\ [][\/ \E t \in TxnIds, kind \in PoolKinds, sends \in BOOLEAN : RequestArrives(t, kind, sends)
          \/ \E t \in TxnIds : getConnection(t)
          \/ \E t \in TxnIds : RequestCompletes(t)]_vars
    /\ \A t \in TxnIds : WF_vars(getConnection(t)) /\ WF_vars(RequestCompletes(t))

\* C30: every connection a request took from the pool is back in the pool
\* when the request has completed: with no request in flight, no connection
\* is out.
C30_ConnectionsReturned ==
    (\A t \in TxnIds : txn[t].pc = "idle") => pool.inUse = 0

\* the consequence C30 draws: no request waits for a connection forever
NoRequestWaitsForever ==
    \A t \in TxnIds : (txn[t].pc = "getConnection") ~> (txn[t].pc = "idle")

====
